---- MODULE Spec2Model ----
(***************************************************************************)
(* A model of the pypredictit client library: the concurrent fetcher       *)
(* (utils.concurrent_get), Contract (order validation and submission,      *)
(* cancelling, the order book and its four views, owned shares, own open   *)
(* orders), Market (metadata and contract ids), Account (balances, login,  *)
(* token refresh and its Timer) and update_all of the three.               *)
(*                                                                         *)
(* Money is kept exact, as decimal.Decimal keeps it: order prices and      *)
(* investments are integers counting mills (1/1000 dollar), order-book     *)
(* prices are integers counting cents.  Python values whose type matters   *)
(* to a comparison are pairs <<type, value>>.                              *)
(***************************************************************************)
EXTENDS Integers, Sequences, FiniteSets, TLC

VARIABLES
    \* ---- utils.concurrent_get: one call of it at a time
    cg_pc,            \* "idle" | "run" | "unwind" | "returned" | "raised"
    urls,             \* the urls argument
    futures,          \* the futures submitted so far, in submission order
    done_order,       \* the indices of the finished futures, in completion order
    results,          \* the list the return statement has built so far
    \* ---- Contract
    my_prediction,    \* None, 0 (No) or 1 (Yes)
    shares_owned,
    investment,       \* mills
    share_details,    \* the share records of the last owned-shares payload
    order_book,       \* [0 |-> no side, 1 |-> yes side], sequences of <<cents, quantity>>
    book_resp,        \* the order-book payload order_book was last built from
    my_orders,        \* [tradeType 0..3 |-> the ids of the user's open orders]
    last,             \* the last order or cancel call since the shares were fetched
    posts,            \* number of submit-trade POSTs the session has issued
    \* ---- Account
    cash_balance,
    investment_balance,
    my_contract_ids,  \* the ids of the contracts the user owns shares of
    \* ---- Account: authentication
    token,            \* self._token, as the generation of the response it came from
    token_expires,    \* self._token_expires, as the generation it was parsed from
    auth_header,      \* the Authorization header of self.session (0: not set)
    auth_timer,       \* self._auth_timer: "none" or the Timer thread it refers to
    thr,              \* the threads that call login and refresh_auth
    srv_gen,          \* the generation of the last token the server issued
    last_recv,        \* the generation of the token response received last
    calls,            \* number of login and refresh_auth calls begun
    \* ---- Market
    market,           \* the metadata fields, by name
    contract_ids,
    mkt_last,         \* outcome of the last Market update call
    \* ---- update_all of one entity, run through concurrent_get
    owner,            \* the entity whose update_all is followed, or "none"
    upd               \* the phase and the outcome of its last update_all call

fetchVars    == <<cg_pc, urls, futures, done_order, results>>
contractVars ==
    <<my_prediction, shares_owned, investment, share_details, order_book, book_resp,
      my_orders>>
tradeVars    == <<last, posts>>
accountVars  == <<cash_balance, investment_balance, my_contract_ids>>
marketVars   == <<market, contract_ids, mkt_last>>
batchVars    == <<owner, upd>>
authVars     ==
    <<token, token_expires, auth_header, auth_timer, thr, srv_gen, last_recv, calls>>
vars ==
    <<fetchVars, contractVars, tradeVars, accountVars, marketVars, batchVars, authVars>>

\* What the actions of one component leave alone in the others.
notFetch    == <<contractVars, tradeVars, accountVars, marketVars, batchVars, authVars>>
notContract == <<fetchVars, marketVars, batchVars, authVars>>
notMarket   == <<fetchVars, contractVars, tradeVars, accountVars, batchVars, authVars>>
notAuth     == <<fetchVars, contractVars, tradeVars, accountVars, marketVars, batchVars>>

(***************************************************************************)
(* Bounds of the model.                                                    *)
(***************************************************************************)
MaxUrls    == 3      \* longest urls list passed to concurrent_get
MaxWorkers == 2      \* the max_workers argument (the code's default is 5)
MaxPosts   == 2      \* submit-trade POSTs issued before the model stops trading
MaxBook    == 2      \* longest side of an order-book payload

RECURSIVE SeqsUpTo(_, _)
SeqsUpTo(S, n) ==
    IF n = 0 THEN {<<>>}
    ELSE LET shorter == SeqsUpTo(S, n - 1)
         IN  shorter \cup {Append(s, x) : s \in {t \in shorter : Len(t) = n - 1}, x \in S}

Range(s) == {s[i] : i \in 1..Len(s)}

(***************************************************************************)
(* utils.concurrent_get                                                    *)
(***************************************************************************)
\* The URLs a call is made of.
URLS == {"u1", "u2"}

\* What the server answers to a GET of url u: a requests.Response, which
\* remembers the URL it answers and carries a status.
Response(u, ok) == [url |-> u, ok |-> ok]

Finished(f) == f.state \in {"done", "error"}

\* with ThreadPoolExecutor(...) as pool: futures = [pool.submit(...) for url in urls]
StartFetch(us) ==
    /\ cg_pc \in {"idle", "returned", "raised"}
    /\ urls' = us
    /\ cg_pc' = "run"
    /\ futures' = <<>>
    /\ done_order' = <<>>
    /\ results' = <<>>

ConcurrentGet ==
    /\ \E us \in SeqsUpTo(URLS, MaxUrls) : StartFetch(us)
    /\ UNCHANGED notFetch

\* pool.submit(get, url, timeout=timeout) for the next url of the list
Submit ==
    /\ cg_pc = "run"
    /\ Len(futures) < Len(urls)
    /\ futures' = Append(futures, [url |-> urls[Len(futures) + 1], state |-> "queued",
                                   resp |-> Response("", FALSE)])
    /\ UNCHANGED <<cg_pc, urls, done_order, results>>
    /\ UNCHANGED notFetch

\* A free worker thread of the pool takes the oldest queued work item.
WorkerStart ==
    /\ cg_pc \in {"run", "unwind"}
    /\ Cardinality({i \in 1..Len(futures) : futures[i].state = "running"}) < MaxWorkers
    /\ \E i \in 1..Len(futures) :
        /\ futures[i].state = "queued"
        /\ \A j \in 1..(i - 1) : futures[j].state # "queued"
        /\ futures' = [futures EXCEPT ![i].state = "running"]
    /\ UNCHANGED <<cg_pc, urls, done_order, results>>
    /\ UNCHANGED notFetch

\* get(url, timeout=timeout) returns a response (of any status) in a worker.
WorkerReturn ==
    /\ cg_pc \in {"run", "unwind"}
    /\ \E i \in 1..Len(futures), ok \in BOOLEAN :
        /\ futures[i].state = "running"
        /\ futures' = [futures EXCEPT ![i].state = "done",
                                      ![i].resp = Response(futures[i].url, ok)]
        /\ done_order' = Append(done_order, i)
    /\ UNCHANGED <<cg_pc, urls, results>>
    /\ UNCHANGED notFetch

\* get(url, timeout=timeout) raises in a worker (timeout, transport error).
WorkerRaise ==
    /\ cg_pc \in {"run", "unwind"}
    /\ \E i \in 1..Len(futures) :
        /\ futures[i].state = "running"
        /\ futures' = [futures EXCEPT ![i].state = "error"]
        /\ done_order' = Append(done_order, i)
    /\ UNCHANGED <<cg_pc, urls, results>>
    /\ UNCHANGED notFetch

\* The future the k-th iteration of the comprehension at line 34 joins when
\* `order` is the completion order so far.  A bug would join by completion.
NextFutureCompleted(k, order) == IF k <= Len(order) THEN order[k] ELSE k
NextFuture(k, order) == k

\* f.result(timeout=timeout) for the next future of the list, which is done
CollectResult ==
    /\ cg_pc = "run"
    /\ Len(futures) = Len(urls)
    /\ Len(results) < Len(urls)
    /\ LET f == futures[NextFuture(Len(results) + 1, done_order)] IN
        /\ f.state = "done"
        /\ results' = Append(results, f.resp)
    /\ UNCHANGED <<cg_pc, urls, futures, done_order>>
    /\ UNCHANGED notFetch

\* A bug would swallow the exception of f.result and go on with the list.
CollectSwallow ==
    /\ cg_pc = "run"
    /\ Len(futures) = Len(urls)
    /\ Len(results) < Len(urls)
    /\ futures[NextFuture(Len(results) + 1, done_order)].state # "done"
    /\ results' = Append(results, Response(urls[Len(results) + 1], FALSE))
    /\ UNCHANGED <<cg_pc, urls, futures, done_order>>
    /\ UNCHANGED notFetch

\* f.result(timeout=timeout) re-raises the worker's exception, or raises
\* TimeoutError for a future that has not finished
CollectRaise ==
    /\ cg_pc = "run"
    /\ Len(futures) = Len(urls)
    /\ Len(results) < Len(urls)
    /\ futures[NextFuture(Len(results) + 1, done_order)].state # "done"
    /\ cg_pc' = "unwind"
    /\ UNCHANGED <<urls, futures, done_order, results>>
    /\ UNCHANGED notFetch

\* The with block is left by the return statement: the list is returned.
PoolExitReturn ==
    /\ cg_pc = "run"
    /\ Len(futures) = Len(urls)
    /\ Len(results) = Len(urls)
    /\ cg_pc' = "returned"
    /\ UNCHANGED <<urls, futures, done_order, results>>
    /\ UNCHANGED notFetch

\* The with block is left by an exception: shutdown(wait=True) joins the
\* workers, which first run every submitted item, and the exception goes on.
PoolExitRaise ==
    /\ cg_pc = "unwind"
    /\ \A i \in 1..Len(futures) : Finished(futures[i])
    /\ cg_pc' = "raised"
    /\ UNCHANGED <<urls, futures, done_order, results>>
    /\ UNCHANGED notFetch

FetchInit ==
    /\ cg_pc = "idle"
    /\ urls = <<>>
    /\ futures = <<>>
    /\ done_order = <<>>
    /\ results = <<>>

FetchNext ==
    \/ ConcurrentGet
    \/ Submit
    \/ WorkerStart
    \/ WorkerReturn
    \/ WorkerRaise
    \/ CollectResult
    \/ CollectRaise
    \/ PoolExitReturn
    \/ PoolExitRaise

(***************************************************************************)
(* Python values.  A value whose type decides a comparison is a pair       *)
(* <<type, value>>; PyStr(n) is the decimal string of n, so PyStr(0) is    *)
(* "0".  Python's == between a str and an int is False; equality of the    *)
(* pairs gives exactly that.                                               *)
(***************************************************************************)
PyInt(n)   == <<"int", n>>
PyStr(n)   == <<"str", n>>
PyFloat(n) == <<"float", n>>
PyNone     == <<"NoneType", 0>>

\* bool(v) for None and for ints
Truthy(v) == v[1] # "NoneType" /\ v[2] # 0

\* isinstance(v, int)
IsInt(v) == v[1] = "int"

\* d dollars, in mills
Mills(d) == 1000 * d

\* int(x) of Python truncates toward zero; a \div b of TLA+ floors
Trunc(a, b) == IF a >= 0 THEN a \div b ELSE -((-a) \div b)

(***************************************************************************)
(* Contract: order validation and submission (contract.py, _post_order)    *)
(***************************************************************************)
\* int_price = int(100 * price), price in mills.  A bug would forget to scale.
IntPriceUnscaled(price) == Trunc(price, Mills(1))
IntPrice(price) == Trunc(100 * price, Mills(1))

\* 1 <= int_price <= 99.  A bug would exclude the upper end.
PriceInRangeExclusive(int_price) == 1 <= int_price /\ int_price < 99
PriceInRange(int_price) == 1 <= int_price /\ int_price <= 99

\* price * quantity + self.investment > 850, in mills
OverCap(price, quantity, inv) == price * quantity + inv > Mills(850)

ValidationErrors ==
    {"PriceError", "QuantityTypeError", "QuantityError", "OwnYesError", "OwnNoError",
     "SellError", "CapError"}

\* The checks of _post_order in the order of the code: the error the call
\* raises, or "valid" when it goes on to post.
Validate(trade_type, price, quantity, pred, owned, inv) ==
    IF ~PriceInRange(IntPrice(price)) THEN "PriceError"
    ELSE IF ~IsInt(quantity) THEN "QuantityTypeError"
    ELSE IF quantity[2] <= 0 THEN "QuantityError"
    ELSE IF pred # PyNone /\ Truthy(pred) /\ trade_type \in {PyInt(0), PyInt(2)}
        THEN "OwnYesError"
    ELSE IF pred # PyNone /\ ~Truthy(pred) /\ trade_type \in {PyInt(1), PyInt(3)}
        THEN "OwnNoError"
    ELSE IF quantity[2] > owned /\ trade_type \in {PyInt(2), PyInt(3)} THEN "SellError"
    ELSE IF trade_type \in {PyInt(0), PyInt(1)} /\ OverCap(price, quantity[2], inv)
        THEN "CapError"
    ELSE "valid"

\* Number of submit-trade POSTs a call with validation outcome v issues: the
\* checks raise before line 77.  A bug would post first and validate after.
PostsIssuedAlways(v) == 1
PostsIssued(v) == IF v = "valid" THEN 1 ELSE 0

\* The arguments the model passes to the four order methods.
Prices     == {-5, 0, 10, 500, 999, 1000}      \* mills
Quantities == {PyInt(0), PyInt(10), PyInt(2000), PyFloat(10)}

NoCall ==
    [method |-> "none", price |-> 0, quantity |-> PyInt(0), result |-> "none",
     repeat |-> FALSE, prev_result |-> "none"]

\* self._post_order(trade_type, price, quantity), called by `method`.
\* resp.raise_for_status() raises HTTPError when the server refuses the trade.
post_order(method, trade_type, price, quantity) ==
    LET v == Validate(trade_type, price, quantity, my_prediction, shares_owned, investment)
        same == last.method = method /\ last.price = price /\ last.quantity = quantity
    IN  /\ posts < MaxPosts
        /\ posts' = posts + PostsIssued(v)
        /\ \E outcome \in (IF v = "valid" THEN {"ok", "HTTPError"} ELSE {v}) :
              last' = [method |-> method, price |-> price, quantity |-> quantity,
                       result |-> outcome, repeat |-> same,
                       prev_result |-> IF same THEN last.result ELSE "none"]
        /\ UNCHANGED <<contractVars, accountVars>>
        /\ UNCHANGED notContract

buy_no   == \E p \in Prices, q \in Quantities : post_order("buy_no", PyStr(0), p, q)
buy_yes  == \E p \in Prices, q \in Quantities : post_order("buy_yes", PyStr(1), p, q)
sell_no  == \E p \in Prices, q \in Quantities : post_order("sell_no", PyStr(2), p, q)
sell_yes == \E p \in Prices, q \in Quantities : post_order("sell_yes", PyStr(3), p, q)

(***************************************************************************)
(* Contract: owned shares (contract.py, _update_shares)                    *)
(***************************************************************************)
MaxShares == 2      \* most share records in one owned-shares payload

\* The share records of a payload: predictionType, sharesOwned, pricePerShare
\* (mills).  1700 shares at $0.50 are an investment of $850.
ShareRecords ==
    [predictionType : {0, 1}, sharesOwned : {5, 1700}, pricePerShare : {500}]

\* The platform lets a user hold one side of a contract only.
SharePayloads ==
    {sh \in SeqsUpTo(ShareRecords, MaxShares) :
        \A i, j \in 1..Len(sh) : sh[i].predictionType = sh[j].predictionType}

\* self._shares_owned after the loop of _update_shares.  A bug would count
\* the first record only, as my_prediction reads shares[0] only.
SumSharesOfFirst(shares) == IF shares = <<>> THEN 0 ELSE shares[1].sharesOwned
RECURSIVE SumShares(_)
SumShares(shares) ==
    IF shares = <<>> THEN 0 ELSE shares[1].sharesOwned + SumShares(Tail(shares))

RECURSIVE SumInvestment(_)
SumInvestment(shares) ==
    IF shares = <<>> THEN 0
    ELSE shares[1].pricePerShare * shares[1].sharesOwned + SumInvestment(Tail(shares))

\* self._my_prediction after _update_shares
PredictionOf(shares) ==
    IF shares = <<>> THEN PyNone ELSE PyInt(shares[1].predictionType)

\* self._update_shares(resp) for a response of good status
ApplyShares(shares) ==
    /\ my_prediction' = PredictionOf(shares)
    /\ shares_owned' = SumShares(shares)
    /\ investment' = SumInvestment(shares)
    /\ share_details' = shares

\* self._update_shares(resp) for a response of bad status:
\* resp.raise_for_status() raises before anything is assigned.  A bug would
\* reset the sums (line 281) before it looks at the status.
RejectSharesAfterReset ==
    /\ shares_owned' = 0
    /\ investment' = 0
    /\ UNCHANGED <<my_prediction, share_details>>
RejectShares == UNCHANGED <<my_prediction, shares_owned, investment, share_details>>

\* update_shares() answered with a payload of `payloads`
update_shares_from(payloads) ==
    /\ \E ok \in BOOLEAN, shares \in payloads :
        IF ok THEN ApplyShares(shares) /\ last' = NoCall
        ELSE RejectShares /\ UNCHANGED last
    /\ UNCHANGED <<order_book, book_resp, my_orders, posts, accountVars>>
    /\ UNCHANGED notContract

(***************************************************************************)
(* Contract: the order book and its views (contract.py, lines 171-248)     *)
(***************************************************************************)
\* Python's < on (price, quantity) tuples
TupleLess(a, b) == a[1] < b[1] \/ (a[1] = b[1] /\ a[2] < b[2])

RECURSIVE Insert(_, _)
Insert(x, s) ==
    IF s = <<>> THEN <<x>>
    ELSE IF TupleLess(x, s[1]) THEN <<x>> \o s
    ELSE <<s[1]>> \o Insert(x, Tail(s))

\* list.sort(): ascending, stable
RECURSIVE Sort(_)
Sort(s) == IF s = <<>> THEN <<>> ELSE Insert(s[Len(s)], Sort(SubSeq(s, 1, Len(s) - 1)))

\* 1 - p for a price of p cents
Complement(p) == 100 - p

\* The (pricePerShare, quantity) entries an order-book payload is made of.
BookEntries == {<<40, 1>>, <<40, 2>>, <<60, 1>>}
BookSides   == SeqsUpTo(BookEntries, MaxBook)
BookPayloads == [yesOrders : BookSides, noOrders : BookSides]

\* self._order_book after _update_order_book: key 1 from yesOrders, key 0
\* from noOrders, both sorted
BookOf(yesOrders, noOrders) == [b \in {0, 1} |-> IF b = 1 THEN Sort(yesOrders) ELSE Sort(noOrders)]

\* update_order_book() answered with a payload of `payloads`:
\* resp.raise_for_status() raises before anything is assigned
update_order_book_from(payloads) ==
    /\ \E ok \in BOOLEAN, orders \in payloads :
        IF ok THEN /\ order_book' = BookOf(orders.yesOrders, orders.noOrders)
                   /\ book_resp' = orders
        ELSE UNCHANGED <<order_book, book_resp>>
    /\ UNCHANGED <<my_prediction, shares_owned, investment, share_details, my_orders>>
    /\ UNCHANGED <<tradeVars, accountVars>>
    /\ UNCHANGED notContract

\* The views.  A bug would take a view from the other side of the book.
no_asks_of_yes_side ==
    [i \in 1..Len(order_book[1]) |-> <<Complement(order_book[1][i][1]), order_book[1][i][2]>>]
no_asks ==
    [i \in 1..Len(order_book[0]) |-> <<Complement(order_book[0][i][1]), order_book[0][i][2]>>]

yes_asks == order_book[1]

no_bids_of_no_side ==
    [i \in 1..Len(order_book[0]) |-> <<Complement(order_book[0][i][1]), order_book[0][i][2]>>]
no_bids ==
    [i \in 1..Len(order_book[1]) |-> <<Complement(order_book[1][i][1]), order_book[1][i][2]>>]

yes_bids == order_book[0]

(***************************************************************************)
(* Contract: the user's open orders (contract.py, lines 327-478)           *)
(***************************************************************************)
\* The own-orders payloads: each offer has an offerId and a tradeType
\* (0 buy No, 1 buy Yes, 2 sell No, 3 sell Yes).
OfferPayloads ==
    {<<>>,
     <<[offerId |-> 7, tradeType |-> 1]>>,
     <<[offerId |-> 7, tradeType |-> 3], [offerId |-> 8, tradeType |-> 1]>>}

\* The order ids of the offers of tradeType k, in the order of the payload
RECURSIVE OffersOfType(_, _)
OffersOfType(offers, k) ==
    IF offers = <<>> THEN <<>>
    ELSE (IF offers[1].tradeType = k THEN <<offers[1].offerId>> ELSE <<>>)
             \o OffersOfType(Tail(offers), k)

\* self._my_orders after _update_my_orders: a list for each of range(4)
OrdersOf(offers) == [k \in 0..3 |-> OffersOfType(offers, k)]

\* update_my_orders() answered with a payload of `payloads`:
\* resp.raise_for_status() raises before anything is assigned
update_my_orders_from(payloads) ==
    /\ \E ok \in BOOLEAN, offers \in payloads :
        my_orders' = IF ok THEN OrdersOf(offers) ELSE my_orders
    /\ UNCHANGED <<my_prediction, shares_owned, investment, share_details>>
    /\ UNCHANGED <<order_book, book_resp, tradeVars, accountVars>>
    /\ UNCHANGED notContract

\* self._my_orders after a cancel call: the call posts and assigns nothing.
\* A bug would drop the cancelled orders from the cached lists.
MyOrdersClearedByCancel(orders) == [k \in DOMAIN orders |-> <<>>]
MyOrdersAfterCancel(orders) == orders

\* cancel_order(order_id) and cancel_all_orders(): one POST to a cancel url
\* (the order id is part of the url only), then resp.raise_for_status().
cancel(method) ==
    /\ \E outcome \in {"ok", "HTTPError"} :
          last' = [method |-> method, price |-> 0, quantity |-> PyInt(0),
                   result |-> outcome, repeat |-> FALSE, prev_result |-> "none"]
    /\ my_orders' = MyOrdersAfterCancel(my_orders)
    /\ UNCHANGED <<my_prediction, shares_owned, investment, share_details>>
    /\ UNCHANGED <<order_book, book_resp, posts, accountVars>>
    /\ UNCHANGED notContract

cancel_order      == cancel("cancel_order")
cancel_all_orders == cancel("cancel_all_orders")

(***************************************************************************)
(* Account: balances (account.py, _update_balances)                        *)
(***************************************************************************)
\* The wallet payloads, in dollars.
WalletPayloads ==
    {[accountBalanceDecimal |-> 900, portfolioBalanceDecimal |-> 0],
     [accountBalanceDecimal |-> 50, portfolioBalanceDecimal |-> 850]}

\* update_balances(): resp.raise_for_status() raises before anything is assigned
update_balances ==
    /\ \E ok \in BOOLEAN, balances \in WalletPayloads :
        IF ok THEN /\ cash_balance' = balances.accountBalanceDecimal
                   /\ investment_balance' = balances.portfolioBalanceDecimal
        ELSE UNCHANGED <<cash_balance, investment_balance>>
    /\ UNCHANGED <<my_contract_ids, contractVars, tradeVars>>
    /\ UNCHANGED notContract

(***************************************************************************)
(* Account: authentication (account.py, lines 37-126).  login and          *)
(* refresh_auth run in the main thread when the user calls them, and       *)
(* refresh_auth runs in a threading.Timer thread when the Account was made *)
(* with a refresh interval.  A thread takes one step per statement that    *)
(* reads or writes what the threads share.  A token response is told apart *)
(* by its generation: the n-th token the server issued is generation n.    *)
(***************************************************************************)
MaxCalls == 3      \* login and refresh_auth calls begun before the model stops calling

\* The main thread and two Timer threads: a Timer starts its successor, so
\* at most one is finishing while the next waits or runs.
Timers  == {"t1", "t2"}
Threads == {"main"} \cup Timers
OtherTimer(t) == IF t = "t1" THEN "t2" ELSE "t1"

\* A thread: the statement it is at, the method it runs, the refresh token
\* in its data dict, the generation of its response (0: none, or a status
\* that is not 2xx), whether the body of the response parses, and how its
\* last call ended.
NoThread ==
    [pc |-> "idle", op |-> "none", data |-> 0, resp |-> 0, good |-> TRUE, result |-> "none"]

Ended(t, how) == [thr EXCEPT ![t].pc = "idle", ![t].result = how]

\* The user calls refresh_auth()
call_refresh_auth ==
    /\ thr["main"].pc = "idle"
    /\ calls < MaxCalls
    /\ calls' = calls + 1
    /\ thr' = [thr EXCEPT !["main"] = [NoThread EXCEPT !.pc = "build", !.op = "refresh_auth"]]
    /\ UNCHANGED <<token, token_expires, auth_header, auth_timer, srv_gen, last_recv>>
    /\ UNCHANGED notAuth

\* The user calls login(): self.session = requests.Session(), whose headers
\* carry no Authorization (lines 74-89)
call_login ==
    /\ thr["main"].pc = "idle"
    /\ calls < MaxCalls
    /\ calls' = calls + 1
    /\ thr' = [thr EXCEPT !["main"] = [NoThread EXCEPT !.pc = "post", !.op = "login"]]
    /\ auth_header' = 0
    /\ UNCHANGED <<token, token_expires, auth_timer, srv_gen, last_recv>>
    /\ UNCHANGED notAuth

\* The interval of Timer t is over: the thread calls self.refresh_auth
timer_fire(t) ==
    /\ thr[t].pc = "waiting"
    /\ calls < MaxCalls
    /\ calls' = calls + 1
    /\ thr' = [thr EXCEPT ![t] = [NoThread EXCEPT !.pc = "build", !.op = "refresh_auth"]]
    /\ UNCHANGED <<token, token_expires, auth_header, auth_timer, srv_gen, last_recv>>
    /\ UNCHANGED notAuth

\* data = {..., "refresh_token": self._token["refresh_token"]} (lines 102-105)
build_data(t) ==
    /\ thr[t].pc = "build"
    /\ thr' = [thr EXCEPT ![t].pc = "post", ![t].data = token]
    /\ UNCHANGED <<token, token_expires, auth_header, auth_timer, srv_gen, last_recv, calls>>
    /\ UNCHANGED notAuth

\* resp = self.session.post(url, data=data): the request is sent
post(t) ==
    /\ thr[t].pc = "post"
    /\ thr' = [thr EXCEPT ![t].pc = "wait"]
    /\ UNCHANGED <<token, token_expires, auth_header, auth_timer, srv_gen, last_recv, calls>>
    /\ UNCHANGED notAuth

\* ... and answered with a new token, whose body parses or does not
respond_token(t) ==
    /\ thr[t].pc = "wait"
    /\ \E good \in BOOLEAN :
        thr' = [thr EXCEPT ![t].pc = "status", ![t].resp = srv_gen + 1, ![t].good = good]
    /\ srv_gen' = srv_gen + 1
    /\ last_recv' = srv_gen + 1
    /\ UNCHANGED <<token, token_expires, auth_header, auth_timer, calls>>
    /\ UNCHANGED notAuth

\* ... or answered with a status that is not 2xx
respond_refused(t) ==
    /\ thr[t].pc = "wait"
    /\ thr' = [thr EXCEPT ![t].pc = "status", ![t].resp = 0]
    /\ UNCHANGED <<token, token_expires, auth_header, auth_timer, srv_gen, last_recv, calls>>
    /\ UNCHANGED notAuth

\* ... or session.post raises (no connection)
post_raise(t) ==
    /\ thr[t].pc = "wait"
    /\ thr' = Ended(t, "ConnectionError")
    /\ UNCHANGED <<token, token_expires, auth_header, auth_timer, srv_gen, last_recv, calls>>
    /\ UNCHANGED notAuth

\* resp.raise_for_status() (line 107; line 91 in login) raises for a status
\* that is not 2xx.  A bug would leave the statement out.
StatusNeverRaises(resp) == FALSE
StatusRaises(resp) == resp = 0

\* threading.current_thread() is self._auth_timer (line 108) in thread t: a
\* Timer is the Thread that runs its function.  A bug would compare the
\* thread with something that is never it, such as the Timer's name.
CurrentThreadIsNever(t, timer) == FALSE
CurrentThreadIs(t, timer) == t = timer

\* Whether lines 108-114 are reached when raise_for_status raises or not.
\* A bug would start the next Timer before it looks at the status.
RestartReachedAlways(raises) == TRUE
RestartReached(raises) == ~raises

\* resp.raise_for_status(); then, in refresh_auth run by the Timer thread
\* self._auth_timer refers to, the next Timer is made and started and
\* self._auth_timer refers to it (lines 107-114).
check_status(t) ==
    /\ thr[t].pc = "status"
    /\ LET raises == StatusRaises(thr[t].resp)
           restart == /\ thr[t].op = "refresh_auth"
                      /\ RestartReached(raises)
                      /\ CurrentThreadIs(t, auth_timer)
           next == OtherTimer(t)
       IN  /\ restart => thr[next].pc = "idle"
           /\ auth_timer' = IF restart THEN next ELSE auth_timer
           /\ thr' = [w \in Threads |->
                        IF w = t
                        THEN (IF raises THEN [thr[t] EXCEPT !.pc = "idle", !.result = "HTTPError"]
                              ELSE [thr[t] EXCEPT !.pc = "token"])
                        ELSE IF restart /\ w = next
                        THEN [NoThread EXCEPT !.pc = "waiting"]
                        ELSE thr[w]]
    /\ UNCHANGED <<token, token_expires, auth_header, srv_gen, last_recv, calls>>
    /\ UNCHANGED notAuth

\* _update_token: self._token = resp.json(...) (line 118)
update_token(t) ==
    /\ thr[t].pc = "token"
    /\ token' = thr[t].resp
    /\ thr' = [thr EXCEPT ![t].pc = "expires"]
    /\ UNCHANGED <<token_expires, auth_header, auth_timer, srv_gen, last_recv, calls>>
    /\ UNCHANGED notAuth

\* _update_token: self._token_expires = strptime(...) (lines 119-121), which
\* raises ValueError when ".expires" is not of the format
update_expires(t) ==
    /\ thr[t].pc = "expires"
    /\ IF thr[t].good
       THEN /\ token_expires' = thr[t].resp
            /\ thr' = [thr EXCEPT ![t].pc = "header"]
       ELSE /\ UNCHANGED token_expires
            /\ thr' = Ended(t, "ValueError")
    /\ UNCHANGED <<token, auth_header, auth_timer, srv_gen, last_recv, calls>>
    /\ UNCHANGED notAuth

\* _update_token: self.session.headers.update({"Authorization": ...})
\* (lines 122-124), and the call returns
update_header(t) ==
    /\ thr[t].pc = "header"
    /\ auth_header' = thr[t].resp
    /\ thr' = Ended(t, "returned")
    /\ UNCHANGED <<token, token_expires, auth_timer, srv_gen, last_recv, calls>>
    /\ UNCHANGED notAuth

\* A step of thread t
ThreadStep(t) ==
    \/ build_data(t)
    \/ post(t)
    \/ respond_token(t)
    \/ respond_refused(t)
    \/ post_raise(t)
    \/ check_status(t)
    \/ update_token(t)
    \/ update_expires(t)
    \/ update_header(t)

\* Account.__init__: login() got the first token; with auth_refresh_interval
\* the first Timer is started (lines 40-46), without it _auth_timer is None.
AuthInit ==
    /\ token = 1
    /\ token_expires = 1
    /\ auth_header = 1
    /\ srv_gen = 1
    /\ last_recv = 1
    /\ calls = 0
    /\ auth_timer \in {"none", "t1"}
    /\ thr = [t \in Threads |->
                IF t = auth_timer THEN [NoThread EXCEPT !.pc = "waiting"] ELSE NoThread]

AuthNext ==
    \/ call_refresh_auth
    \/ call_login
    \/ \E t \in Timers : timer_fire(t)
    \/ \E t \in Threads : ThreadStep(t)

(***************************************************************************)
(* Market (market.py): metadata, contract ids, update_all                  *)
(***************************************************************************)
NumVersions  == 2      \* distinct market-info payloads, told apart by a version
MaxContracts == 2      \* most contracts in a market-contracts payload

\* The metadata fields in the order _update_info assigns them (lines 80-121).
InfoFields ==
    <<"market_name", "market_type", "end_date", "is_active", "rule", "have_ownership",
      "have_trade_history", "investment", "max_payout", "info", "date_opened",
      "is_market_watched", "status", "is_open", "is_open_status_message",
      "is_trading_suspended", "is_trading_suspended_message", "is_engine_busy",
      "is_engine_busy_message">>

FieldIndex(f) == CHOOSE i \in 1..Len(InfoFields) : InfoFields[i] = f

\* A market-info response: its status, the version of its content, the zone
\* named by dateEndString ("N/A" for no end date) and whether dateOpened
\* parses.  Nothing of a response of bad status is read, so one stands for all.
InfoPayloads ==
    [ok : {TRUE}, v : 1..NumVersions, end : {"N/A", "ET", "PT"}, opened : {"iso", "bad"}]
        \cup {[ok |-> FALSE, v |-> 1, end |-> "N/A", opened |-> "iso"]}

\* The value _update_info gives field f from payload p: the payload's value,
\* written as the payload's version; end_date is 0 (None) for "N/A".
FieldValue(f, p) == IF f = "end_date" /\ p.end = "N/A" THEN 0 ELSE p.v

\* How many fields _update_info has assigned when it returns or raises:
\* raise_for_status raises first (line 76), an unsupported zone raises at
\* line 99 after two assignments, strptime of dateOpened at line 110 after ten.
AssignedCount(p) ==
    IF ~p.ok THEN 0
    ELSE IF p.end \notin {"N/A", "ET"} THEN 2
    ELSE IF p.opened = "bad" THEN 10
    ELSE Len(InfoFields)

InfoRaises(p) == AssignedCount(p) < Len(InfoFields)

\* The exception _update_info raises on payload p ("none" when it returns):
\* HTTPError from raise_for_status, NotImplementedError for a zone other than
\* ET (line 99), ValueError from strptime of dateOpened.
InfoError(p) ==
    IF ~p.ok THEN "HTTPError"
    ELSE IF p.end \notin {"N/A", "ET"} THEN "NotImplementedError"
    ELSE IF p.opened = "bad" THEN "ValueError"
    ELSE "none"

\* The metadata after self._update_info(resp), returned or raised
InfoAfter(m, p) ==
    [f \in DOMAIN m |-> IF FieldIndex(f) <= AssignedCount(p) THEN FieldValue(f, p) ELSE m[f]]

\* A market-contracts response: its status and the contractId of each entry.
ContractIds == {101, 102}
ContractsPayloads ==
    [ok : {TRUE}, ids : SeqsUpTo(ContractIds, MaxContracts)] \cup {[ok |-> FALSE, ids |-> <<>>]}

\* self._contract_ids after self._update_contracts(resp), returned or raised
ContractsAfter(ids, p) == IF p.ok THEN p.ids ELSE ids

\* update_info()
update_info ==
    /\ \E p \in InfoPayloads :
        /\ market' = InfoAfter(market, p)
        /\ mkt_last' = [op |-> "update_info", raised |-> InfoRaises(p),
                        error |-> InfoError(p)]
    /\ UNCHANGED contract_ids
    /\ UNCHANGED notMarket

\* update_contracts()
update_contracts ==
    /\ \E p \in ContractsPayloads :
        /\ contract_ids' = ContractsAfter(contract_ids, p)
        /\ mkt_last' = [op |-> "update_contracts", raised |-> ~p.ok,
                        error |-> IF p.ok THEN "none" ELSE "HTTPError"]
    /\ UNCHANGED market
    /\ UNCHANGED notMarket

\* Market.update_all(): concurrent_get raises or returns the two responses
\* in the order of the urls; then _update_info(responses[0]) and, unless that
\* raised, _update_contracts(responses[1]).
market_update_all ==
    /\ \E fetched \in BOOLEAN, p \in InfoPayloads, c \in ContractsPayloads :
        IF ~fetched
        THEN /\ UNCHANGED <<market, contract_ids>>
             /\ mkt_last' = [op |-> "update_all", raised |-> TRUE,
                             error |-> "RequestException"]
        ELSE /\ market' = InfoAfter(market, p)
             /\ contract_ids' = IF InfoRaises(p) THEN contract_ids
                                ELSE ContractsAfter(contract_ids, c)
             /\ mkt_last' = [op |-> "update_all", raised |-> InfoRaises(p) \/ ~c.ok,
                             error |-> IF InfoRaises(p) THEN InfoError(p)
                                       ELSE IF c.ok THEN "none" ELSE "HTTPError"]
    /\ UNCHANGED notMarket

(***************************************************************************)
(* update_all of an Account, a Market or a Contract: the responses come    *)
(* from concurrent_get, then the _update_* methods run in the order of the *)
(* code, each on its response, until one raises.                           *)
(***************************************************************************)
Entities == {"Account", "Market", "Contract"}

\* The urls update_all passes to concurrent_get
UrlsOf(e) ==
    IF e = "Account" THEN <<"User/Wallet/Balance", "Profile/Shares">>
    ELSE IF e = "Market" THEN <<"Market", "Market/Contracts">>
    ELSE <<"Trade/OrderBook", "Profile/contract/Shares", "Profile/contract/Offers">>

NoUpdate == [phase |-> "idle", error |-> "none", resps |-> <<>>]

\* The Profile/Shares payloads, as the contract ids they list.
ProfilePayloads == {<<>>, <<101>>}

\* What resp.json() gives for a response update_all reads, out of
\* `payloads`; a response it does not read stands as `unread`.
Body(read, payloads, unread) == IF read THEN payloads ELSE {unread}

\* The call of concurrent_get is over: its locals are gone.
EndFetch ==
    /\ cg_pc' = "idle"
    /\ urls' = <<>>
    /\ futures' = <<>>
    /\ done_order' = <<>>
    /\ results' = <<>>

\* responses = concurrent_get(urls, session=...): the call is made
update_all_call ==
    /\ owner \in Entities
    /\ upd.phase # "fetching"
    /\ StartFetch(UrlsOf(owner))
    /\ upd' = [phase |-> "fetching", error |-> "none", resps |-> <<>>]
    /\ UNCHANGED <<owner, authVars, contractVars, tradeVars, accountVars, marketVars>>

\* concurrent_get raised: the exception leaves update_all at that statement
update_all_raise ==
    /\ upd.phase = "fetching"
    /\ cg_pc = "raised"
    /\ upd' = [phase |-> "done", error |-> "FetchError", resps |-> <<>>]
    /\ EndFetch
    /\ UNCHANGED <<owner, authVars, contractVars, tradeVars, accountVars, marketVars>>

\* Account.update_all() after concurrent_get returned:
\* _update_balances(responses[0]), _update_contracts(responses[1])
account_update_all ==
    /\ owner = "Account" /\ upd.phase = "fetching" /\ cg_pc = "returned"
    /\ LET ok1 == results[1].ok
           ok2 == ok1 /\ results[2].ok
       IN  \E balances \in WalletPayloads, ids \in Body(ok2, ProfilePayloads, <<>>) :
            /\ IF ok1 THEN /\ cash_balance' = balances.accountBalanceDecimal
                           /\ investment_balance' = balances.portfolioBalanceDecimal
               ELSE UNCHANGED <<cash_balance, investment_balance>>
            /\ my_contract_ids' = IF ok2 THEN ids ELSE my_contract_ids
            /\ upd' = [phase |-> "done", error |-> IF ok2 THEN "none" ELSE "HTTPError",
                       resps |-> <<>>]
    /\ EndFetch
    /\ UNCHANGED <<owner, authVars, contractVars, tradeVars, marketVars>>

\* Market.update_all() after concurrent_get returned:
\* _update_info(responses[0]), _update_contracts(responses[1])
market_update_all_fetched ==
    /\ owner = "Market" /\ upd.phase = "fetching" /\ cg_pc = "returned"
    /\ \E p \in {q \in InfoPayloads : q.ok = results[1].ok} :
        \E c \in {d \in ContractsPayloads : d.ok = (~InfoRaises(p) /\ results[2].ok)} :
            /\ market' = InfoAfter(market, p)
            /\ contract_ids' = IF InfoRaises(p) THEN contract_ids
                               ELSE ContractsAfter(contract_ids, c)
            /\ upd' = [phase |-> "done",
                       error |-> IF InfoRaises(p) THEN InfoError(p)
                                 ELSE IF c.ok THEN "none" ELSE "HTTPError",
                       resps |-> <<>>]
    /\ EndFetch
    /\ UNCHANGED <<owner, authVars, mkt_last, contractVars, tradeVars, accountVars>>

\* Contract.update_all() after concurrent_get returned:
\* _update_order_book(responses[0]), _update_shares(responses[1]),
\* _update_my_orders(responses[2]); `books` are the order-book payloads.
contract_update_all(books) ==
    /\ owner = "Contract" /\ upd.phase = "fetching" /\ cg_pc = "returned"
    /\ LET ok1 == results[1].ok
           ok2 == ok1 /\ results[2].ok
           ok3 == ok2 /\ results[3].ok
       IN  \E orders \in Body(ok1, books, [yesOrders |-> <<>>, noOrders |-> <<>>]),
              shares \in Body(ok2, SharePayloads, <<>>),
              offers \in Body(ok3, OfferPayloads, <<>>) :
            /\ IF ok1 THEN /\ order_book' = BookOf(orders.yesOrders, orders.noOrders)
                           /\ book_resp' = orders
               ELSE UNCHANGED <<order_book, book_resp>>
            /\ IF ok2 THEN ApplyShares(shares) /\ last' = NoCall
               ELSE IF ok1 THEN RejectShares /\ UNCHANGED last
               ELSE UNCHANGED <<my_prediction, shares_owned, investment, share_details, last>>
            /\ my_orders' = IF ok3 THEN OrdersOf(offers) ELSE my_orders
            /\ upd' = [phase |-> "done", error |-> IF ok3 THEN "none" ELSE "HTTPError",
                       resps |-> <<[ok |-> results[1].ok, body |-> orders],
                                  [ok |-> results[2].ok, body |-> shares],
                                  [ok |-> results[3].ok, body |-> offers]>>]
    /\ EndFetch
    /\ UNCHANGED <<owner, authVars, posts, accountVars, marketVars>>

(***************************************************************************)
(* Specifications.  Every one starts from objects as their constructors    *)
(* leave them: __init__ runs update_all, and raises (so there is no        *)
(* object) unless every response was good.                                 *)
(***************************************************************************)
\* Contract.__init__: the fields after the first update_all
ContractInit(sharePayloads, payloads, offerPayloads) ==
    /\ \E shares \in sharePayloads :
        /\ my_prediction = PredictionOf(shares)
        /\ shares_owned = SumShares(shares)
        /\ investment = SumInvestment(shares)
        /\ share_details = shares
    /\ \E orders \in payloads :
        /\ order_book = BookOf(orders.yesOrders, orders.noOrders)
        /\ book_resp = orders
    /\ \E offers \in offerPayloads : my_orders = OrdersOf(offers)
    /\ last = NoCall
    /\ posts = 0

\* Account.__init__: the balances after the first update_all
AccountInit ==
    \E balances \in WalletPayloads :
        /\ cash_balance = balances.accountBalanceDecimal
        /\ investment_balance = balances.portfolioBalanceDecimal
        /\ my_contract_ids = <<>>

\* Market.__init__: the fields after the first update_all
MarketInit ==
    /\ \E p \in InfoPayloads :
        /\ ~InfoRaises(p)
        /\ market = [f \in Range(InfoFields) |-> FieldValue(f, p)]
    /\ \E c \in ContractsPayloads : c.ok /\ contract_ids = c.ids
    /\ mkt_last = [op |-> "init", raised |-> FALSE, error |-> "none"]

\* One object of each kind, used where a specification is about another.
IdleFetch == FetchInit
IdleContract ==
    /\ my_prediction = PyNone
    /\ shares_owned = 0
    /\ investment = 0
    /\ share_details = <<>>
    /\ order_book = BookOf(<<>>, <<>>)
    /\ book_resp = [yesOrders |-> <<>>, noOrders |-> <<>>]
    /\ my_orders = OrdersOf(<<>>)
    /\ last = NoCall
    /\ posts = 0
IdleAccount == cash_balance = 0 /\ investment_balance = 0 /\ my_contract_ids = <<>>
IdleBatch == owner = "none" /\ upd = NoUpdate
IdleAuth ==
    /\ token = 1
    /\ token_expires = 1
    /\ auth_header = 1
    /\ srv_gen = 1
    /\ last_recv = 1
    /\ calls = 0
    /\ auth_timer = "none"
    /\ thr = [t \in Threads |-> NoThread]
IdleMarket ==
    /\ market = [f \in Range(InfoFields) |-> 1]
    /\ contract_ids = <<>>
    /\ mkt_last = [op |-> "init", raised |-> FALSE, error |-> "none"]

\* ---- Trading on a Contract
TradeBooks ==
    {[yesOrders |-> <<<<60, 1>>, <<40, 1>>>>, noOrders |-> <<>>],
     [yesOrders |-> <<<<40, 2>>>>, noOrders |-> <<<<60, 1>>>>]}

\* The owned-shares payloads of at most one record.
TradeShares == {sh \in SharePayloads : Len(sh) <= 1}

update_order_book == update_order_book_from(TradeBooks)
update_shares     == update_shares_from(TradeShares)
update_my_orders  == update_my_orders_from(OfferPayloads)

Init ==
    /\ ContractInit(TradeShares, TradeBooks, OfferPayloads)
    /\ AccountInit /\ IdleFetch /\ IdleMarket /\ IdleBatch /\ IdleAuth

Next ==
    \/ buy_no
    \/ buy_yes
    \/ sell_no
    \/ sell_yes
    \/ cancel_order
    \/ cancel_all_orders
    \/ update_shares
    \/ update_order_book
    \/ update_my_orders
    \/ update_balances

Spec == Init /\ [][Next]_vars

\* ---- Refreshing the order book of a Contract
refresh_order_book == update_order_book_from(BookPayloads)

\* The constructor's refresh got one of the payloads of TradeBooks; every
\* other book comes from a later refresh.
BookInit ==
    /\ ContractInit({<<>>}, TradeBooks, {<<>>})
    /\ IdleAccount /\ IdleFetch /\ IdleMarket /\ IdleBatch /\ IdleAuth

BookNext == refresh_order_book

BookSpec == BookInit /\ [][BookNext]_vars

\* ---- concurrent_get
FetchSpecInit ==
    FetchInit /\ IdleContract /\ IdleAccount /\ IdleMarket /\ IdleBatch /\ IdleAuth

FetchSpec == FetchSpecInit /\ [][FetchNext]_vars

\* ---- Market
MarketSpecInit ==
    MarketInit /\ IdleContract /\ IdleAccount /\ IdleFetch /\ IdleBatch /\ IdleAuth

MarketNext ==
    \/ update_info
    \/ update_contracts
    \/ market_update_all

MarketSpec == MarketSpecInit /\ [][MarketNext]_vars

\* ---- update_all of one entity, and the owned-shares refresh of a Contract
contract_update_all_fetched == contract_update_all(TradeBooks)

refresh_shares ==
    /\ owner = "Contract"
    /\ upd.phase # "fetching"
    /\ update_shares_from(SharePayloads)

BatchInit ==
    /\ owner \in Entities
    /\ upd = NoUpdate
    /\ FetchInit
    /\ IF owner = "Contract" THEN ContractInit(SharePayloads, TradeBooks, OfferPayloads)
       ELSE IdleContract
    /\ IF owner = "Account" THEN AccountInit ELSE IdleAccount
    /\ IF owner = "Market" THEN MarketInit ELSE IdleMarket
    /\ IdleAuth

BatchNext ==
    \/ update_all_call
    \/ Submit
    \/ WorkerStart
    \/ WorkerReturn
    \/ WorkerRaise
    \/ CollectResult
    \/ CollectRaise
    \/ PoolExitReturn
    \/ PoolExitRaise
    \/ update_all_raise
    \/ account_update_all
    \/ market_update_all_fetched
    \/ contract_update_all_fetched
    \/ refresh_shares

BatchSpec == BatchInit /\ [][BatchNext]_vars

\* ---- Authentication of an Account
AuthSpecInit ==
    AuthInit /\ IdleContract /\ IdleAccount /\ IdleFetch /\ IdleMarket /\ IdleBatch

AuthSpec == AuthSpecInit /\ [][AuthNext]_vars

\* The same, with the scheduling of the Timer threads: a Timer whose interval
\* is over runs, a running thread goes on, and a request that was sent ends,
\* with a response or with an exception.
AuthFairSpec ==
    /\ AuthSpecInit
    /\ [][AuthNext]_vars
    /\ \A t \in Timers : WF_vars(timer_fire(t) \/ ThreadStep(t))

(***************************************************************************)
(* Properties                                                              *)
(***************************************************************************)

\* C1 (FetchSpec): when concurrent_get returns, in whatever order the worker
\* requests completed, the returned list is as long as urls and its i-th
\* element is the response the i-th future got for the i-th URL.
C1_ResultsInUrlOrder ==
    cg_pc = "returned" =>
        /\ Len(results) = Len(urls)
        /\ \A i \in 1..Len(urls) : results[i] = futures[i].resp /\ results[i].url = urls[i]

\* C1 witness: a call of two different URLs returned although the second
\* request completed first.
C1_Witness ==
    /\ cg_pc = "returned"
    /\ Len(urls) >= 2
    /\ urls[1] # urls[2]
    /\ done_order[1] = 2

\* The sides of the order methods.
NoMethods   == {"buy_no", "sell_no"}
YesMethods  == {"buy_yes", "sell_yes"}
BuyMethods  == {"buy_no", "buy_yes"}
SellMethods == {"sell_no", "sell_yes"}
OrderMethods == BuyMethods \cup SellMethods

\* C2 (Spec), as claimed: an order on the side opposite to the cached
\* position is rejected with a validation error, so nothing is posted.
C2_OppositeSideRejected ==
    (\/ (last.method \in NoMethods /\ my_prediction = PyInt(1))
     \/ (last.method \in YesMethods /\ my_prediction = PyInt(0)))
        => last.result \in ValidationErrors

\* C3 (Spec), as claimed: a sell order for more shares than the cached
\* shares_owned is rejected with a validation error, so nothing is posted.
C3_OversellRejected ==
    (/\ last.method \in SellMethods
     /\ IsInt(last.quantity)
     /\ last.quantity[2] > shares_owned)
        => last.result \in ValidationErrors

\* C4 (Spec), as claimed: a buy order whose price x quantity plus the cached
\* investment exceeds $850 is rejected with a validation error, so nothing is
\* posted.
C4_OverCapRejected ==
    (/\ last.method \in BuyMethods
     /\ IsInt(last.quantity)
     /\ last.price * last.quantity[2] + investment > Mills(850))
        => last.result \in ValidationErrors

\* The order of the C5 scenario, buy_yes(0.50, 10), on a contract whose
\* cached investment is zero.
C5_Order ==
    /\ last.method = "buy_yes"
    /\ last.price = 500
    /\ last.quantity = PyInt(10)
    /\ investment = 0

\* C5 (Spec), as claimed: the order succeeds the first time, and raises the
\* investment-cap error when the same order is submitted again.
C5_RepeatRaisesCap ==
    /\ (C5_Order /\ ~last.repeat) => last.result \in {"ok", "HTTPError"}
    /\ (C5_Order /\ last.repeat /\ last.prev_result = "ok") => last.result = "CapError"

\* C5 (Spec), amended: the order passes validation and is posted the first
\* time, and again when the same order is submitted again after it
\* succeeded; the investment-cap error is not raised.
C5_RepeatAccepted ==
    /\ (C5_Order /\ ~last.repeat) => last.result \in {"ok", "HTTPError"}
    /\ (C5_Order /\ last.repeat /\ last.prev_result = "ok")
          => last.result \in {"ok", "HTTPError"}

\* C5 witness: the order was submitted twice and succeeded both times.
C5_Witness == C5_Order /\ last.repeat /\ last.prev_result = "ok" /\ last.result = "ok"

\* The price in whole cents, truncated toward zero, said without division:
\* the c of least magnitude and of the sign of the price with
\* |price| < 10 * (|c| + 1) mills.
SpecCents(price) ==
    CHOOSE c \in -200..200 :
        IF price >= 0 THEN c >= 0 /\ 10 * c <= price /\ price < 10 * (c + 1)
        ELSE c <= 0 /\ 10 * (c - 1) < price /\ price <= 10 * c

\* C6 (Spec): an order of any of the four methods is rejected with the price
\* error exactly when its price, scaled by 100 and truncated to whole cents,
\* is outside [1, 99].
C6_PriceErrorIffOutOfRange ==
    last.method \in OrderMethods =>
        (last.result = "PriceError" <=> ~(1 <= SpecCents(last.price) /\ SpecCents(last.price) <= 99))

\* C6 witness: a price of 99.9 cents, truncated to 99, passed the price check
\* and the order was posted.
C6_Witness == last.method \in OrderMethods /\ last.price = 999 /\ last.result = "ok"

\* A step that is a call of one of the four order methods.
OrderStep == last'.method \in OrderMethods /\ (last' # last \/ posts' # posts)

\* C7 (Spec): an order call that fails validation issues no POST and changes
\* no field of the Contract or of the Account; an order call that passes
\* validation issues exactly one POST.
C7_ValidateBeforePost ==
    [][OrderStep =>
        /\ last'.result \in ValidationErrors =>
              posts' = posts /\ UNCHANGED <<contractVars, accountVars>>
        /\ last'.result \notin ValidationErrors => posts' = posts + 1]_vars

\* C7 witness: an order failed validation after an earlier one was posted.
C7_Witness == last.result \in ValidationErrors /\ posts >= 1

\* The side `side` of the book with each price p replaced by 1 - p.
Complemented(side) == [i \in 1..Len(side) |-> <<100 - side[i][1], side[i][2]>>]

\* C8 (BookSpec), as claimed: no_asks is the canonical yes side with each
\* price p replaced by 1 - p, and yes_bids is the canonical no side.
C8_NoAsksFromYesSide ==
    /\ no_asks = Complemented(order_book[1])
    /\ yes_bids = order_book[0]

\* C8 (BookSpec), amended: no_asks is the canonical no side with each price
\* p replaced by 1 - p, and yes_bids is the canonical no side as-is.
C8_NoAsksFromNoSide ==
    /\ no_asks = Complemented(order_book[0])
    /\ yes_bids = order_book[0]

\* C8 witness: a refresh from a payload whose two sides differ and whose no
\* side came unsorted.
C8_Witness ==
    /\ book_resp.noOrders = <<<<60, 1>>, <<40, 2>>>>
    /\ book_resp.yesOrders = <<<<40, 1>>>>
    /\ no_asks = <<<<60, 2>>, <<40, 1>>>>

\* C9 (BookSpec): for the canonical yes side L, no_bids is the list of
\* (1 - p, q) for (p, q) in L, in the order of L.
C9_NoBidsFromYesSide ==
    /\ Len(no_bids) = Len(yes_asks)
    /\ \A i \in 1..Len(yes_asks) :
          no_bids[i] = <<100 - yes_asks[i][1], yes_asks[i][2]>>
    /\ yes_asks = order_book[1]

\* C9 witness: a refresh from a payload whose two sides differ and whose yes
\* side came unsorted.
C9_Witness ==
    /\ book_resp.yesOrders = <<<<60, 1>>, <<40, 2>>>>
    /\ book_resp.noOrders = <<<<40, 1>>>>
    /\ no_bids = <<<<60, 2>>, <<40, 1>>>>

\* C10 (MarketSpec), as claimed: when Market.update_all raises, neither the
\* metadata fields nor the contract-id list have changed.
C10_UpdateAllOrNothing ==
    [][(mkt_last'.op = "update_all" /\ mkt_last'.raised) =>
        (market' = market /\ contract_ids' = contract_ids)]_vars

\* C11 (MarketSpec), as claimed: when the end-date string of a market-info
\* response names a zone other than ET, the metadata refresh raises and has
\* changed no field of the Market.
C11_ZoneErrorBeforeMutating ==
    [][(mkt_last'.op = "update_info" /\ mkt_last'.error = "NotImplementedError") =>
        (mkt_last'.raised /\ market' = market)]_vars

\* A view in ascending, in descending order of price
AscendingByPrice(view) == \A i \in 1..(Len(view) - 1) : view[i][1] <= view[i + 1][1]
DescendingByPrice(view) == \A i \in 1..(Len(view) - 1) : view[i][1] >= view[i + 1][1]

\* The best ask is the cheapest, the best bid the highest.
BestAskFirst(view) == AscendingByPrice(view)
BestBidFirst(view) == DescendingByPrice(view)

\* C17 (BookSpec), as claimed: after any order-book refresh every one of the
\* four views is sorted best price first, and yes_asks and no_bids are in
\* ascending order of price.
C17_ViewsBestFirst ==
    /\ BestAskFirst(yes_asks) /\ BestAskFirst(no_asks)
    /\ BestBidFirst(yes_bids) /\ BestBidFirst(no_bids)
    /\ AscendingByPrice(yes_asks) /\ AscendingByPrice(no_bids)

\* The cached fields of the Contract and the balances of the Account
CachedFields ==
    <<order_book, my_prediction, shares_owned, investment, share_details, my_orders,
      cash_balance, investment_balance>>

\* A step that is a call of an order method or of a cancel method.
TradeOrCancelStep == last'.method # "none" /\ (last' # last \/ posts' # posts)

\* C18 (Spec): submitting an order, accepted or rejected, or cancelling
\* orders changes none of the cached fields of the Contract nor the balances
\* of the Account; a step that changes one of them is a call of an update
\* method, which leaves the POST count alone.
C18_TradingKeepsCache ==
    [][/\ TradeOrCancelStep => CachedFields' = CachedFields
       /\ CachedFields' # CachedFields => posts' = posts /\ last' \in {last, NoCall}]_vars

\* C18 witness: after an order was accepted, cancel_all_orders succeeded and
\* the cached open orders still list an order.
C18_Witness ==
    /\ last.method = "cancel_all_orders"
    /\ last.result = "ok"
    /\ posts >= 1
    /\ my_orders[1] # <<>>

\* The three field groups of a Contract, and the snapshot a payload gives each.
SharesGroup == <<my_prediction, shares_owned, investment, share_details>>
BookSnapshot(orders) == [b \in {0, 1} |-> Sort(IF b = 1 THEN orders.yesOrders ELSE orders.noOrders)]
SharesSnapshot(shares) ==
    <<PredictionOf(shares), SumShares(shares), SumInvestment(shares), shares>>
OrdersSnapshot(offers) == [k \in 0..3 |-> OffersOfType(offers, k)]

\* A step in which Contract.update_all, its responses fetched, raises HTTPError.
UpdateAllHTTPError ==
    /\ owner = "Contract"
    /\ upd.phase = "fetching"
    /\ upd'.phase = "done"
    /\ upd'.error = "HTTPError"

\* C12 (BatchSpec): when Contract.update_all raises because one of its three
\* responses is an HTTP failure, each of the three field groups (order book,
\* owned shares, own open orders) is either entirely as it was before the
\* call or entirely the snapshot of its new response, and a group whose
\* response failed is as it was.
C12_NoGroupHalfUpdated ==
    [][UpdateAllHTTPError =>
        /\ order_book' \in {order_book} \cup
              (IF upd'.resps[1].ok THEN {BookSnapshot(upd'.resps[1].body)} ELSE {})
        /\ SharesGroup' \in {SharesGroup} \cup
              (IF upd'.resps[2].ok THEN {SharesSnapshot(upd'.resps[2].body)} ELSE {})
        /\ my_orders' \in {my_orders} \cup
              (IF upd'.resps[3].ok THEN {OrdersSnapshot(upd'.resps[3].body)} ELSE {})]_vars

\* C12 witness: update_all raised on the owned-shares response; the order
\* book is that of the new response and the owned shares, which are not
\* none, are the old ones.
C12_Witness ==
    /\ owner = "Contract"
    /\ upd.phase = "done"
    /\ upd.error = "HTTPError"
    /\ upd.resps[1].ok /\ ~upd.resps[2].ok /\ upd.resps[3].ok
    /\ order_book = BookSnapshot(upd.resps[1].body)
    /\ share_details # <<>>

\* The fields of the three entities
EntityFields == <<contractVars, accountVars, market, contract_ids>>

\* A request of the batch has failed or timed out inside concurrent_get.
RequestFailed ==
    \/ cg_pc \in {"unwind", "raised"}
    \/ \E i \in 1..Len(futures) : futures[i].state = "error"

\* C13 (BatchSpec): concurrent_get returns its list only when no request of
\* the batch failed; when one failed it raises, update_all ends with that
\* error, and no step of that update_all call changes a field of the entity.
C13_FailedFetchChangesNothing ==
    [][/\ cg_pc' = "returned" => ~RequestFailed'
       /\ (upd.phase = "fetching" /\ (RequestFailed' \/ upd'.error = "FetchError")) =>
             /\ EntityFields' = EntityFields
             /\ upd'.phase = "done" => upd'.error = "FetchError"]_vars

\* C13 witness: an update_all call ended with the error of concurrent_get.
C13_Witness == owner \in Entities /\ upd.phase = "done" /\ upd.error = "FetchError"

\* The sum of sharesOwned over the first n records
RECURSIVE TotalOwned(_, _)
TotalOwned(records, n) ==
    IF n = 0 THEN 0 ELSE TotalOwned(records, n - 1) + records[n].sharesOwned

\* C16 (BatchSpec): after construction and after any owned-shares refresh,
\* shares_owned is the sum of sharesOwned over all share records of the last
\* good response, and it is 0 with my_prediction none when that response
\* had no share records.
C16_SharesOwnedIsSum ==
    /\ shares_owned = TotalOwned(share_details, Len(share_details))
    /\ share_details = <<>> => shares_owned = 0 /\ my_prediction = PyNone

\* C16 witness: update_all returned with an owned-shares response of two
\* records, of 5 and of 1700 shares.
C16_Witness ==
    /\ upd.phase = "done"
    /\ upd.error = "none"
    /\ Len(share_details) = 2
    /\ shares_owned = 1705

\* Thread t takes a step of a refresh_auth call (one whose request was
\* answered with a status that is not 2xx, for Refused).
RefreshStep(t) == thr[t].op = "refresh_auth" /\ thr[t].pc # "idle" /\ thr'[t] # thr[t]
Refused(t)     == thr[t].pc = "status" /\ thr[t].resp = 0

\* C14 (AuthSpec): a refresh_auth call whose request gets a response that is
\* not 2xx ends with HTTPError raised to its caller, and no step of the call,
\* up to and including the one that raises, changes the stored token, the
\* stored expiry or the Authorization header of the session.
C14_RefusedRefreshKeepsToken ==
    [][\A t \in Threads :
        /\ (RefreshStep(t) /\ Refused(t)) =>
              thr'[t].pc = "idle" /\ thr'[t].result = "HTTPError"
        /\ (RefreshStep(t) /\ (Refused(t) \/ thr[t].pc \in {"build", "post", "wait"})) =>
              UNCHANGED <<token, token_expires, auth_header>>]_vars

\* C14 witness: after an earlier call replaced the first token, a
\* refresh_auth call was refused and raised HTTPError.
C14_Witness ==
    /\ thr["main"].op = "refresh_auth"
    /\ thr["main"].pc = "idle"
    /\ thr["main"].result = "HTTPError"
    /\ token = 2 /\ token_expires = 2 /\ auth_header = 2

\* C15 (AuthFairSpec): for an Account made with a refresh interval, a Timer
\* that waits runs refresh_auth (until the model stops calling), and a
\* background refresh that runs is followed by the next Timer waiting
\* unless the request of a background refresh failed.
C15_RefreshAgainAndAgain ==
    \A t \in Timers :
        /\ (thr[t].pc = "waiting") ~> (thr[t].pc = "build" \/ calls = MaxCalls)
        /\ (thr[t].pc = "build") ~>
              \/ thr[OtherTimer(t)].pc = "waiting"
              \/ \E u \in Timers : thr[u].result \in {"HTTPError", "ConnectionError"}

\* C15 witness: the second Timer runs refresh_auth after the first one's
\* refresh succeeded.
C15_Witness ==
    /\ auth_timer = "t2"
    /\ thr["t2"].pc = "build"
    /\ thr["t1"].result = "returned"

\* C19 (AuthSpec), as claimed: every refresh request sends the refresh token
\* of the token response received last, and a request of a Timer thread
\* sends the token that is stored when it is sent.
C19_SendsLatestToken ==
    [][\A t \in Threads :
        (thr[t].op = "refresh_auth" /\ thr[t].pc = "post" /\ thr'[t].pc = "wait") =>
            /\ thr[t].data = last_recv
            /\ t \in Timers => thr[t].data = token]_vars

\* A background refresh has failed: at its request, or at any statement.
BackgroundRequestFailed == \E t \in Timers : thr[t].result \in {"HTTPError", "ConnectionError"}
BackgroundFailed ==
    \E t \in Timers : thr[t].result \in {"HTTPError", "ConnectionError", "ValueError"}

\* No Timer waits and no Timer thread is about to send a request.
NoTimerAhead == \A t \in Timers : thr[t].pc \notin {"waiting", "build", "post"}

\* A step of the main thread leaves the Timers alone.
ExplicitStepsKeepTimers ==
    (thr'["main"] # thr["main"]) =>
        /\ auth_timer' = auth_timer
        /\ \A t \in Timers : thr'[t] = thr[t]

\* C20 (AuthSpec), as claimed: once a background refresh has failed, no
\* Timer is scheduled and no Timer thread refreshes the token again; calls
\* of the main thread never schedule a Timer.
C20_FailedRefreshStopsTimer ==
    [][(BackgroundFailed' => NoTimerAhead') /\ ExplicitStepsKeepTimers]_vars

\* C20 (AuthSpec), amended: once the request of a background refresh has
\* failed (no connection, or a status that is not 2xx), no Timer is
\* scheduled and no Timer thread refreshes the token again; calls of the
\* main thread never schedule a Timer.
C20_FailedRequestStopsTimer ==
    [][(BackgroundRequestFailed' => NoTimerAhead') /\ ExplicitStepsKeepTimers]_vars

\* C20 witness: the second background refresh was refused, and a later call
\* of refresh_auth by the user got the third token and returned.
C20_Witness ==
    /\ auth_timer = "t2"
    /\ thr["t2"].result = "HTTPError"
    /\ thr["main"].op = "refresh_auth"
    /\ thr["main"].result = "returned"
    /\ token = 3

====
